---- MODULE Spec2Model ----
(***************************************************************************)
(* Model of banking_atm_system.py: the in-memory ledger `accounts`, the    *)
(* JSON file it is saved to, the menu position of the single interactive   *)
(* process, and one action per handler of the ATM and admin menus.         *)
(*                                                                         *)
(* Money is a count of paise (1/100 rupee): 15000.0 is Rs(15000).  The     *)
(* amounts typed at a prompt are finite decimals or text float() rejects.  *)
(* An interest rate is held in percent per year: 0.04 is 4.                *)
(* A calendar date is a record [year, month, day]; the process clock is    *)
(* the day index `today`, and DateOf turns it into the date isoformat()    *)
(* would print.                                                            *)
(***************************************************************************)
EXTENDS Integers, Sequences, FiniteSets, TLC

VARIABLES
    accounts,   \* the dict main() loads and every handler mutates
    file,       \* accounts_data.json: [kind, data]
    today,      \* the system clock, as a day index
    pc,         \* which prompt the process waits at: main, pin, atm, admin;
                \* off when it is not running, crashed once an exception left main
    session,    \* acc_no of the authenticate call / ATM session, "" if none
    attempt,    \* loop index of authenticate's `for attempt in range(3)`
    last,       \* the most recent handler call: its inputs, outcome, state before
    logged,     \* per account, every transaction log_transaction was given
    debited     \* per account, total of the successful debits made on `today`

vars == <<accounts, file, today, pc, session, attempt, last, logged, debited>>

----------------------------------------------------------------------------
(* Bounds of the model *)

DaysPerMonth == 2       \* length of a model month, in days
MaxEvents == 3          \* midnights + transactions logged + wrong PINs in a run
LogExtra == 2           \* transactions logged beyond MAX_HISTORY in LogSpec
InterestMonths == 3     \* months that pass in InterestSpec

(* Program constants *)

MonthsPerYear == 12     \* the 12 of the months computation and of rate / 12
MaxAttempts == 3        \* range(3) and failed_attempts >= 3
MaxHistory == 50        \* len(transactions) > 50, [-50:]
DefaultDailyLimit == 20000  \* create_account's daily_limit, in rupees
SavingsRate == 4        \* create_account's 0.04 for savings, in percent

Rs(n) == n * 100

IDs == {"1001", "1002", "1003"}
NoAccount == ""

----------------------------------------------------------------------------
(* Dates: datetime.date.today(), isoformat(), fromisoformat() *)

StartDay == MonthsPerYear * DaysPerMonth - 1    \* the last day of a December

DateOf(d) ==
    [year  |-> d \div (MonthsPerYear * DaysPerMonth),
     month |-> ((d \div DaysPerMonth) % MonthsPerYear) + 1,
     day   |-> (d % DaysPerMonth) + 1]

today_str == DateOf(today)

(* The timestamp of a transaction, kept to its date *)
now_str == DateOf(today)

----------------------------------------------------------------------------
(* Inputs typed at the prompts *)

Typed == {[num |-> TRUE, val |-> v] : v \in {0, Rs(5000), Rs(20000)}}
           \cup {[num |-> FALSE, val |-> 0]}

(* At the withdraw prompt, also the amount of the worked example *)
WithdrawTyped == Typed \cup {[num |-> TRUE, val |-> Rs(16000)]}

Digits == {"0", "1", "2", "3", "4", "5", "6", "7", "8", "9"}

Pin1234 == <<"1", "2", "3", "4">>
Pin4321 == <<"4", "3", "2", "1">>

PinsTyped == {Pin1234, Pin4321}

Number(n) == [num |-> TRUE, val |-> n]
NotANumber == [num |-> FALSE, val |-> 0]

(* The amounts typed at the transfer prompt in TransferSpec *)
TransferTyped == {Number(Rs(5000)), Number(Rs(20000))}

(* What the admin types at create_account's prompts: PIN, opening balance, type *)
FormsTyped ==
    {<<Pin1234, Number(Rs(25000)), "Current">>,
     <<Pin4321, Number(0 - Rs(5000)), "savings">>,
     <<<<"1", "2", "3">>, Number(Rs(25000)), "savings">>,
     <<<<"1", "2", "a", "4">>, Number(Rs(25000)), "savings">>,
     <<Pin1234, NotANumber, "savings">>,
     <<Pin1234, Number(Rs(25000)), "gold">>}

(* str.lower() on the account types typed *)
Lower(s) == IF s = "Current" THEN "current" ELSE s

----------------------------------------------------------------------------
(* create_default_accounts *)

CreateDefaultAccounts(d) ==
    [id \in {"1001", "1002"} |->
        IF id = "1001"
        THEN [name |-> "Rahul Sharma", pin |-> Pin1234, balance |-> Rs(15000),
              type |-> "savings", transactions |-> <<>>, failed_attempts |-> 0,
              locked |-> FALSE, daily_limit |-> Rs(20000), withdrawn_today |-> 0,
              last_withdraw_date |-> d, interest_rate |-> 4,
              last_interest_date |-> d]
        ELSE [name |-> "Priya Verma", pin |-> Pin4321, balance |-> Rs(8000),
              type |-> "current", transactions |-> <<>>, failed_attempts |-> 0,
              locked |-> FALSE, daily_limit |-> Rs(30000), withdrawn_today |-> 0,
              last_withdraw_date |-> d, interest_rate |-> 0,
              last_interest_date |-> d]]

(* save_accounts: the whole dict replaces the file's content *)
SaveAccounts(accs) == [kind |-> "ledger", data |-> accs]

(* log_transaction: one entry of the history *)
Transaction(t_type, amount, balance_after, note) ==
    [time |-> now_str, type |-> t_type, amount |-> amount,
     balance_after |-> balance_after, note |-> note]

LastN(s, n) == IF Len(s) > n THEN SubSeq(s, Len(s) - n + 1, Len(s)) ELSE s

(* The history cut to its first MaxHistory entries instead of its last *)
LogTransactionKeepOldest(account, t_type, amount, balance_after, note) ==
    LET appended == Append(account.transactions,
                           Transaction(t_type, amount, balance_after, note))
    IN  [account EXCEPT !.transactions =
            IF Len(appended) > MaxHistory THEN SubSeq(appended, 1, MaxHistory)
            ELSE appended]

(* log_transaction *)
LogTransaction(account, t_type, amount, balance_after, note) ==
    LET appended == Append(account.transactions,
                           Transaction(t_type, amount, balance_after, note))
    IN  [account EXCEPT !.transactions =
            IF Len(appended) > MaxHistory THEN LastN(appended, MaxHistory)
            ELSE appended]

Note(text, acc, months) == [text |-> text, acc |-> acc, months |-> months]

(* reset_daily_withdraw_if_new_day *)
ResetDailyWithdrawIfNewDay(account) ==
    IF account.last_withdraw_date # today_str
    THEN [account EXCEPT !.withdrawn_today = 0, !.last_withdraw_date = today_str]
    ELSE account

----------------------------------------------------------------------------
(* The record of a handler call *)

Call(op, acc, tgt, amt, res) ==
    [op |-> op, acc |-> acc, tgt |-> tgt, amt |-> amt, res |-> res,
     pre |-> accounts, preFile |-> file, day |-> today]

RECURSIVE SumOver(_, _)
SumOver(f, S) ==
    IF S = {} THEN 0
    ELSE LET x == CHOOSE y \in S : TRUE IN f[x] + SumOver(f, S \ {x})

----------------------------------------------------------------------------
(* What accounts_data.json can be when load_accounts runs:
     absent      there is no such file
     unreadable  open() refuses it (PermissionError)
     corrupt     its text is not JSON
     array       its text is JSON, but a list and not an object
     ledger      it is what save_accounts wrote *)
StorageKinds == {"absent", "unreadable", "corrupt", "array", "ledger"}

NoLedger == [id \in {} |-> NoAccount]

(* load_accounts: the exceptions its except clause does not name leave it:
   PermissionError from open(), AttributeError from data.items() *)
LoadRaises(f) == f.kind \in {"unreadable", "array"}

(* load_accounts: a missing or undecodable file is replaced by the defaults *)
LoadAccounts(f) ==
    IF f.kind = "ledger" THEN f.data ELSE CreateDefaultAccounts(today_str)

FileAfterLoad(f) ==
    IF f.kind = "ledger" THEN f ELSE SaveAccounts(CreateDefaultAccounts(today_str))

Init ==
    /\ accounts = CreateDefaultAccounts(DateOf(StartDay))
    /\ file = SaveAccounts(CreateDefaultAccounts(DateOf(StartDay)))
    /\ today = StartDay
    /\ pc = "main"
    /\ session = NoAccount
    /\ attempt = 0
    /\ last = [op |-> "load", acc |-> NoAccount, tgt |-> NoAccount, amt |-> 0,
               res |-> "ok", pre |-> CreateDefaultAccounts(DateOf(StartDay)),
               preFile |-> SaveAccounts(CreateDefaultAccounts(DateOf(StartDay))),
               day |-> StartDay]
    /\ logged = [id \in IDs |-> <<>>]
    /\ debited = [id \in IDs |-> 0]

(* The clock passes midnight; a handler reads the date when it is called *)
Tick ==
    /\ today' = today + 1
    /\ debited' = [id \in IDs |-> 0]
    /\ UNCHANGED <<accounts, file, pc, session, attempt, last, logged>>

(* A month passes at the main menu *)
Wait ==
    /\ today' = today + DaysPerMonth
    /\ debited' = [id \in IDs |-> 0]
    /\ UNCHANGED <<accounts, file, pc, session, attempt, last, logged>>

(* main: accounts = load_accounts(), or the exception that leaves it *)
Load ==
    /\ IF LoadRaises(file)
       THEN /\ pc' = "crashed"
            /\ accounts' = NoLedger
            /\ last' = Call("load", NoAccount, NoAccount, 0, "Raised")
            /\ UNCHANGED <<file, logged>>
       ELSE /\ pc' = "main"
            /\ accounts' = LoadAccounts(file)
            /\ file' = FileAfterLoad(file)
            /\ logged' = IF file.kind = "ledger" THEN logged ELSE [id \in IDs |-> <<>>]
            /\ last' = Call("load", NoAccount, NoAccount, 0, "ok")
    /\ UNCHANGED <<today, session, attempt, debited>>

(* main, choice 3, and the next run of the program *)
Restart == pc = "main" /\ Load

(* The program is started *)
Start == pc \in {"off", "crashed"} /\ Load

(* main, choice 3: the process ends and its dict with it *)
Exit ==
    /\ pc = "main"
    /\ pc' = "off"
    /\ accounts' = NoLedger
    /\ last' = Call("exit", NoAccount, NoAccount, 0, "ok")
    /\ UNCHANGED <<file, today, session, attempt, logged, debited>>

(* While the program is not running the file is removed, protected, or
   overwritten with other text *)
Damage(kind) ==
    /\ pc \in {"off", "crashed"}
    /\ kind # "ledger"
    /\ file' = [kind |-> kind, data |-> NoLedger]
    /\ UNCHANGED <<accounts, today, pc, session, attempt, last, logged, debited>>

----------------------------------------------------------------------------
(* The lock test passing every account *)
IsLockedIgnored(account) == FALSE

(* authenticate: account.get("locked", False) *)
IsLocked(account) == account.locked

(* authenticate, up to the first PIN prompt *)
Authenticate(acc_no) ==
    /\ pc = "main"
    /\ IF acc_no \notin DOMAIN accounts
       THEN /\ last' = Call("authenticate", acc_no, NoAccount, 0, "NotFound")
            /\ UNCHANGED <<pc, session>>
       ELSE IF IsLocked(accounts[acc_no])
       THEN /\ last' = Call("authenticate", acc_no, NoAccount, 0, "AccountLocked")
            /\ UNCHANGED <<pc, session>>
       ELSE /\ last' = Call("authenticate", acc_no, NoAccount, 0, "prompt")
            /\ pc' = "pin"
            /\ session' = acc_no
    /\ attempt' = 0
    /\ UNCHANGED <<accounts, file, today, logged, debited>>

(* authenticate: pin == account["pin"] *)
PinMatches(pin, account) == pin = account.pin

(* The account locked one failure early *)
LockThresholdEarly(account) == account.failed_attempts >= MaxAttempts - 1

(* authenticate: account["failed_attempts"] >= 3 *)
LockThresholdReached(account) == account.failed_attempts >= MaxAttempts

(* authenticate: one pass of the loop body, for the PIN typed at its prompt *)
SubmitPin(pin) ==
    /\ pc = "pin"
    /\ LET account == accounts[session] IN
       IF PinMatches(pin, account)
       THEN LET accs == [accounts EXCEPT ![session].failed_attempts = 0] IN
            /\ accounts' = accs
            /\ file' = SaveAccounts(accs)
            /\ pc' = "atm"
            /\ attempt' = 0
            /\ last' = Call("pin", session, NoAccount, attempt + 1, "ok")
            /\ UNCHANGED session
       ELSE LET failed == [account EXCEPT !.failed_attempts = @ + 1] IN
            IF LockThresholdReached(failed)
            THEN LET accs == [accounts EXCEPT ![session] =
                                 [failed EXCEPT !.locked = TRUE]] IN
                 /\ accounts' = accs
                 /\ file' = SaveAccounts(accs)
                 /\ pc' = "main"
                 /\ session' = NoAccount
                 /\ attempt' = 0
                 /\ last' = Call("pin", session, NoAccount, attempt + 1, "AccountLocked")
            ELSE LET accs == [accounts EXCEPT ![session] = failed] IN
                 IF attempt + 1 < MaxAttempts
                 THEN /\ accounts' = accs
                      /\ attempt' = attempt + 1
                      /\ last' = Call("pin", session, NoAccount, attempt + 1, "InvalidPin")
                      /\ UNCHANGED <<file, pc, session>>
                 ELSE /\ accounts' = accs
                      /\ file' = SaveAccounts(accs)
                      /\ pc' = "main"
                      /\ session' = NoAccount
                      /\ attempt' = 0
                      /\ last' = Call("pin", session, NoAccount, attempt + 1, "InvalidPin")
    /\ UNCHANGED <<today, logged, debited>>

(* atm_menu, choice 7 *)
Logout ==
    /\ pc = "atm"
    /\ pc' = "main"
    /\ session' = NoAccount
    /\ last' = Call("logout", session, NoAccount, 0, "ok")
    /\ UNCHANGED <<accounts, file, today, attempt, logged, debited>>

----------------------------------------------------------------------------
(* deposit_amount *)
Deposit(inp) ==
    /\ pc = "atm"
    /\ IF ~inp.num
       THEN /\ last' = Call("deposit", session, NoAccount, 0, "InvalidAmount")
            /\ UNCHANGED <<accounts, file, logged>>
       ELSE IF inp.val <= 0
       THEN /\ last' = Call("deposit", session, NoAccount, 0, "InvalidAmount")
            /\ UNCHANGED <<accounts, file, logged>>
       ELSE LET amount == inp.val
                balance == accounts[session].balance + amount
                note == Note("Cash deposit", NoAccount, 0)
                account == LogTransaction(
                             [accounts[session] EXCEPT !.balance = balance],
                             "deposit", amount, balance, note)
                accs == [accounts EXCEPT ![session] = account]
            IN  /\ accounts' = accs
                /\ file' = SaveAccounts(accs)
                /\ logged' = [logged EXCEPT ![session] =
                                Append(@, Transaction("deposit", amount, balance, note))]
                /\ last' = Call("deposit", session, NoAccount, amount, "ok")
    /\ UNCHANGED <<today, pc, session, attempt, debited>>

(* The amount compared with the daily limit instead of the balance *)
WithdrawInsufficientVsLimit(amount, account) == amount > account.daily_limit

(* withdraw_amount: amount > account["balance"] *)
WithdrawInsufficient(amount, account) == amount > account.balance

(* The limit test forgetting what was already withdrawn today *)
WithdrawOverLimitPerCall(amount, account) == amount > account.daily_limit

(* The limit test turning away the amount that exactly reaches the limit *)
WithdrawOverLimitAtBoundary(amount, account) ==
    account.withdrawn_today + amount >= account.daily_limit

(* withdraw_amount: withdrawn_today + amount > limit *)
WithdrawOverLimit(amount, account) ==
    account.withdrawn_today + amount > account.daily_limit

(* withdraw_amount *)
Withdraw(inp) ==
    /\ pc = "atm"
    /\ IF ~inp.num
       THEN /\ last' = Call("withdraw", session, NoAccount, 0, "InvalidAmount")
            /\ UNCHANGED <<accounts, file, logged, debited>>
       ELSE IF inp.val <= 0
       THEN /\ last' = Call("withdraw", session, NoAccount, 0, "InvalidAmount")
            /\ UNCHANGED <<accounts, file, logged, debited>>
       ELSE LET amount == inp.val
                reset == ResetDailyWithdrawIfNewDay(accounts[session])
            IN
            IF WithdrawInsufficient(amount, reset)
            THEN /\ accounts' = [accounts EXCEPT ![session] = reset]
                 /\ last' = Call("withdraw", session, NoAccount, amount, "InsufficientFunds")
                 /\ UNCHANGED <<file, logged, debited>>
            ELSE IF WithdrawOverLimit(amount, reset)
            THEN /\ accounts' = [accounts EXCEPT ![session] = reset]
                 /\ last' = Call("withdraw", session, NoAccount, amount, "DailyLimitExceeded")
                 /\ UNCHANGED <<file, logged, debited>>
            ELSE LET balance == reset.balance - amount
                     note == Note("Cash withdrawal", NoAccount, 0)
                     account == LogTransaction(
                                  [reset EXCEPT !.balance = balance,
                                                !.withdrawn_today = @ + amount,
                                                !.last_withdraw_date = today_str],
                                  "withdraw", amount, balance, note)
                     accs == [accounts EXCEPT ![session] = account]
                 IN  /\ accounts' = accs
                     /\ file' = SaveAccounts(accs)
                     /\ logged' = [logged EXCEPT ![session] =
                                     Append(@, Transaction("withdraw", amount, balance, note))]
                     /\ debited' = [debited EXCEPT ![session] = @ + amount]
                     /\ last' = Call("withdraw", session, NoAccount, amount, "ok")
    /\ UNCHANGED <<today, pc, session, attempt>>

(* transfer_funds: amount > source["balance"] *)
TransferInsufficient(amount, source) == amount > source.balance

(* transfer_funds: withdrawn_today + amount > limit *)
TransferOverLimit(amount, source) ==
    source.withdrawn_today + amount > source.daily_limit

(* The debit logged with the balance it found, not the one it left *)
DebitSourceLoggingOldBalance(source, target_acc_no, amount) ==
    LogTransaction([source EXCEPT !.balance = @ - amount,
                                  !.withdrawn_today = @ + amount,
                                  !.last_withdraw_date = today_str],
                   "transfer_out", amount, source.balance,
                   Note("Transfer to", target_acc_no, 0))

(* transfer_funds: the source as debited and logged *)
DebitSource(source, target_acc_no, amount) ==
    LogTransaction([source EXCEPT !.balance = @ - amount,
                                  !.withdrawn_today = @ + amount,
                                  !.last_withdraw_date = today_str],
                   "transfer_out", amount, source.balance - amount,
                   Note("Transfer to", target_acc_no, 0))

(* The credit applied to the balance without its log entry *)
CreditTargetUnlogged(target, acc_no, amount) ==
    [target EXCEPT !.balance = @ + amount]

(* The credit counted against the daily limit of the target *)
CreditTargetCountingLimit(target, acc_no, amount) ==
    LogTransaction([target EXCEPT !.balance = @ + amount,
                                  !.withdrawn_today = @ + amount,
                                  !.last_withdraw_date = today_str],
                   "transfer_in", amount, target.balance + amount,
                   Note("Transfer from", acc_no, 0))

(* transfer_funds: the target as credited and logged *)
CreditTarget(target, acc_no, amount) ==
    LogTransaction([target EXCEPT !.balance = @ + amount],
                   "transfer_in", amount, target.balance + amount,
                   Note("Transfer from", acc_no, 0))

(* The save made between the debit and the credit *)
TransferSavedAfterDebit(debited_only, both) == SaveAccounts(debited_only)

(* transfer_funds: what its one save_accounts call writes, given the ledger
   after the debit alone and the ledger after the debit and the credit *)
TransferSaved(debited_only, both) == SaveAccounts(both)

(* transfer_funds *)
Transfer(target_acc_no, inp) ==
    /\ pc = "atm"
    /\ IF target_acc_no \notin DOMAIN accounts
       THEN /\ last' = Call("transfer", session, target_acc_no, 0, "NotFound")
            /\ UNCHANGED <<accounts, file, logged, debited>>
       ELSE IF target_acc_no = session
       THEN /\ last' = Call("transfer", session, target_acc_no, 0, "SameAccount")
            /\ UNCHANGED <<accounts, file, logged, debited>>
       ELSE IF ~inp.num
       THEN /\ last' = Call("transfer", session, target_acc_no, 0, "InvalidAmount")
            /\ UNCHANGED <<accounts, file, logged, debited>>
       ELSE IF inp.val <= 0
       THEN /\ last' = Call("transfer", session, target_acc_no, 0, "InvalidAmount")
            /\ UNCHANGED <<accounts, file, logged, debited>>
       ELSE LET amount == inp.val
                source == ResetDailyWithdrawIfNewDay(accounts[session])
                target == accounts[target_acc_no]
            IN
            IF TransferInsufficient(amount, source)
            THEN /\ accounts' = [accounts EXCEPT ![session] = source]
                 /\ last' = Call("transfer", session, target_acc_no, amount,
                                 "InsufficientFunds")
                 /\ UNCHANGED <<file, logged, debited>>
            ELSE IF TransferOverLimit(amount, source)
            THEN /\ accounts' = [accounts EXCEPT ![session] = source]
                 /\ last' = Call("transfer", session, target_acc_no, amount,
                                 "DailyLimitExceeded")
                 /\ UNCHANGED <<file, logged, debited>>
            ELSE LET debited_only == [accounts EXCEPT ![session] =
                                         DebitSource(source, target_acc_no, amount)]
                     both == [debited_only EXCEPT ![target_acc_no] =
                                 CreditTarget(target, session, amount)]
                 IN  /\ accounts' = both
                     /\ file' = TransferSaved(debited_only, both)
                     /\ logged' = [logged EXCEPT
                            ![session] = Append(@,
                                Transaction("transfer_out", amount,
                                            source.balance - amount,
                                            Note("Transfer to", target_acc_no, 0))),
                            ![target_acc_no] = Append(@,
                                Transaction("transfer_in", amount,
                                            target.balance + amount,
                                            Note("Transfer from", session, 0)))]
                     /\ debited' = [debited EXCEPT ![session] = @ + amount]
                     /\ last' = Call("transfer", session, target_acc_no, amount, "ok")
    /\ UNCHANGED <<today, pc, session, attempt>>

(* The month of the last accrual counted again *)
MonthsBetweenInclusive(last_date, date) ==
    (date.year - last_date.year) * MonthsPerYear + (date.month - last_date.month) + 1

(* apply_interest_if_savings: months between the last accrual and today *)
MonthsBetween(last_date, date) ==
    (date.year - last_date.year) * MonthsPerYear + (date.month - last_date.month)

(* The yearly rate applied to every month *)
InterestAtYearlyRate(balance, rate, months) == (balance * rate * months) \div 100

(* apply_interest_if_savings: balance * (rate / 12) * months, the rate in
   percent, rounded down to a paisa *)
Interest(balance, rate, months) ==
    (balance * rate * months) \div (100 * MonthsPerYear)

(* apply_interest_if_savings *)
ApplyInterest ==
    /\ pc = "atm"
    /\ LET account == accounts[session]
           rate == account.interest_rate
           months == MonthsBetween(account.last_interest_date, DateOf(today))
           interest == Interest(account.balance, rate, months)
       IN
       IF account.type # "savings"
       THEN /\ last' = Call("interest", session, NoAccount, 0, "NotSavings")
            /\ UNCHANGED <<accounts, file, logged>>
       ELSE IF rate <= 0
       THEN /\ last' = Call("interest", session, NoAccount, 0, "NoRate")
            /\ UNCHANGED <<accounts, file, logged>>
       ELSE IF months <= 0
       THEN /\ last' = Call("interest", session, NoAccount, 0, "UpToDate")
            /\ UNCHANGED <<accounts, file, logged>>
       ELSE IF interest <= 0
       THEN /\ last' = Call("interest", session, NoAccount, interest, "NothingToAccrue")
            /\ UNCHANGED <<accounts, file, logged>>
       ELSE LET balance == account.balance + interest
                note == Note("Interest for", NoAccount, months)
                accs == [accounts EXCEPT ![session] =
                           LogTransaction([account EXCEPT !.balance = balance,
                                              !.last_interest_date = today_str],
                                          "interest", interest, balance, note)]
            IN  /\ accounts' = accs
                /\ file' = SaveAccounts(accs)
                /\ logged' = [logged EXCEPT ![session] =
                                Append(@, Transaction("interest", interest, balance, note))]
                /\ last' = Call("interest", session, NoAccount, interest, "ok")
    /\ UNCHANGED <<today, pc, session, attempt, debited>>

----------------------------------------------------------------------------
AdminUsername == "admin"
AdminPassword == "admin123"

(* admin_menu: admin_login *)
AdminLogin(username, password) ==
    /\ pc = "main"
    /\ IF username = AdminUsername /\ password = AdminPassword
       THEN /\ pc' = "admin"
            /\ last' = Call("admin_login", NoAccount, NoAccount, 0, "ok")
       ELSE /\ pc' = "main"
            /\ last' = Call("admin_login", NoAccount, NoAccount, 0, "InvalidCredentials")
    /\ UNCHANGED <<accounts, file, today, session, attempt, logged, debited>>

(* admin_menu, choice 5 *)
AdminBack ==
    /\ pc = "admin"
    /\ pc' = "main"
    /\ last' = Call("admin_back", NoAccount, NoAccount, 0, "ok")
    /\ UNCHANGED <<accounts, file, today, session, attempt, logged, debited>>

(* The PIN test that looks at the length alone *)
PinIsValidLengthOnly(pin) == Len(pin) = 4

(* create_account: pin.isdigit() and len(pin) == 4 *)
PinIsValid(pin) == Len(pin) = 4 /\ \A i \in 1..Len(pin) : pin[i] \in Digits

(* create_account: the record built for the new account *)
NewAccount(name, pin, opening_balance, acc_type) ==
    [name |-> name, pin |-> pin, balance |-> opening_balance, type |-> acc_type,
     transactions |-> <<>>, failed_attempts |-> 0, locked |-> FALSE,
     daily_limit |-> Rs(DefaultDailyLimit), withdrawn_today |-> 0,
     last_withdraw_date |-> today_str,
     interest_rate |-> IF acc_type = "savings" THEN SavingsRate ELSE 0,
     last_interest_date |-> today_str]

(* create_account *)
CreateAccount(acc_no, name, pin, inp, type_typed) ==
    /\ pc = "admin"
    /\ IF acc_no \in DOMAIN accounts
       THEN /\ last' = Call("create", acc_no, NoAccount, 0, "DuplicateId")
            /\ UNCHANGED <<accounts, file, logged, debited>>
       ELSE IF ~PinIsValid(pin)
       THEN /\ last' = Call("create", acc_no, NoAccount, 0, "InvalidPin")
            /\ UNCHANGED <<accounts, file, logged, debited>>
       ELSE IF ~inp.num
       THEN /\ last' = Call("create", acc_no, NoAccount, 0, "InvalidAmount")
            /\ UNCHANGED <<accounts, file, logged, debited>>
       ELSE IF Lower(type_typed) \notin {"savings", "current"}
       THEN /\ last' = Call("create", acc_no, NoAccount, 0, "InvalidType")
            /\ UNCHANGED <<accounts, file, logged, debited>>
       ELSE LET opening_balance == inp.val
                note == Note("Opening deposit", NoAccount, 0)
                account == LogTransaction(
                             NewAccount(name, pin, opening_balance, Lower(type_typed)),
                             "deposit", opening_balance, opening_balance, note)
                accs == [id \in DOMAIN accounts \cup {acc_no} |->
                           IF id = acc_no THEN account ELSE accounts[id]]
            IN  /\ accounts' = accs
                /\ file' = SaveAccounts(accs)
                /\ logged' = [logged EXCEPT ![acc_no] =
                                <<Transaction("deposit", opening_balance,
                                              opening_balance, note)>>]
                /\ debited' = [debited EXCEPT ![acc_no] = 0]
                /\ last' = Call("create", acc_no, NoAccount, opening_balance, "ok")
    /\ UNCHANGED <<today, pc, session, attempt>>

(* delete_account *)
DeleteAccount(acc_no, confirm) ==
    /\ pc = "admin"
    /\ IF acc_no \notin DOMAIN accounts
       THEN /\ last' = Call("delete", acc_no, NoAccount, 0, "NotFound")
            /\ UNCHANGED <<accounts, file, logged, debited>>
       ELSE IF confirm = "y"
       THEN LET accs == [id \in DOMAIN accounts \ {acc_no} |-> accounts[id]] IN
            /\ accounts' = accs
            /\ file' = SaveAccounts(accs)
            /\ logged' = [logged EXCEPT ![acc_no] = <<>>]
            /\ debited' = [debited EXCEPT ![acc_no] = 0]
            /\ last' = Call("delete", acc_no, NoAccount, 0, "ok")
       ELSE /\ last' = Call("delete", acc_no, NoAccount, 0, "Cancelled")
            /\ UNCHANGED <<accounts, file, logged, debited>>
    /\ UNCHANGED <<today, pc, session, attempt>>

(* The lock cleared and the count of wrong PINs left standing *)
UnlockedKeepingCount(account) == [account EXCEPT !.locked = FALSE]

(* unlock_account: the account as unlocked *)
Unlocked(account) == [account EXCEPT !.locked = FALSE, !.failed_attempts = 0]

(* unlock_account *)
UnlockAccount(acc_no) ==
    /\ pc = "admin"
    /\ IF acc_no \notin DOMAIN accounts
       THEN /\ last' = Call("unlock", acc_no, NoAccount, 0, "NotFound")
            /\ UNCHANGED <<accounts, file>>
       ELSE LET accs == [accounts EXCEPT ![acc_no] = Unlocked(accounts[acc_no])] IN
            /\ accounts' = accs
            /\ file' = SaveAccounts(accs)
            /\ last' = Call("unlock", acc_no, NoAccount, 0, "ok")
    /\ UNCHANGED <<today, pc, session, attempt, logged, debited>>

----------------------------------------------------------------------------
(* The runs explored: the midnights crossed, the transactions logged and the
   wrong PINs standing against the accounts number at most MaxEvents together *)

Spent(day, accs, lg) ==
    (day - StartDay)
      + SumOver([id \in IDs |-> Len(lg[id])], IDs)
      + SumOver([id \in IDs |-> IF id \in DOMAIN accs
                                THEN accs[id].failed_attempts ELSE 0], IDs)

WithinBounds == Spent(today', accounts', logged') <= MaxEvents

Next ==
    \/ pc \in {"main", "atm"} /\ Tick /\ WithinBounds
    \/ Restart
    \/ \E acc_no \in IDs : Authenticate(acc_no)
    \/ \E pin \in PinsTyped : SubmitPin(pin) /\ WithinBounds
    \/ Logout
    \/ \E inp \in Typed : Deposit(inp) /\ WithinBounds
    \/ \E inp \in WithdrawTyped : Withdraw(inp) /\ WithinBounds
    \/ \E target_acc_no \in IDs, inp \in Typed :
          Transfer(target_acc_no, inp) /\ WithinBounds
    \/ ApplyInterest /\ WithinBounds
    \/ \E password \in {AdminPassword, "guess"} : AdminLogin(AdminUsername, password)
    \/ AdminBack
    \/ \E form \in FormsTyped :
          CreateAccount("1003", "Asha Rao", form[1], form[2], form[3]) /\ WithinBounds
    \/ \E acc_no \in {"1002", "1003"}, confirm \in {"y", "n"} :
          DeleteAccount(acc_no, confirm)
    \/ \E acc_no \in IDs : UnlockAccount(acc_no)

Spec == Init /\ [][Next]_vars

----------------------------------------------------------------------------
(* What the claims speak of *)

DebitOps == {"withdraw", "transfer"}

(* The call `last` reached reset_daily_withdraw_if_new_day *)
ReachedReset ==
    /\ last.op \in DebitOps
    /\ last.res \in {"ok", "InsufficientFunds", "DailyLimitExceeded"}

(* The call `last` was the account's first debit-limited call of a new day *)
FirstDebitOfDay ==
    ReachedReset /\ last.pre[last.acc].last_withdraw_date # DateOf(last.day)

----------------------------------------------------------------------------
(* C1: an account whose balance was >= 0 before a Withdraw or Transfer call,
   accepted or rejected, has a balance >= 0 after it; so a ledger of
   non-negative balances stays one under any sequence of such calls. *)
C1_DebitKeepsBalanceNonNegative ==
    last.op \in DebitOps =>
        \A id \in DOMAIN accounts :
            (id \in DOMAIN last.pre /\ last.pre[id].balance >= 0)
                => accounts[id].balance >= 0

(* A withdrawal or transfer that took the whole balance *)
C1_Witness ==
    /\ last.op \in DebitOps
    /\ last.res = "ok"
    /\ last.pre[last.acc].balance > 0
    /\ accounts[last.acc].balance = 0

(* C2: every account of the ledger has balance >= 0 in every state reached
   from the default seed by the engine and admin operations. *)
C2_AllBalancesNonNegative ==
    \A id \in DOMAIN accounts : accounts[id].balance >= 0

(* C3: on any day the successful debits of an account (withdrawals and
   transfers out) total at most its daily_limit; withdrawn_today is that total
   whenever last_withdraw_date is today; and the first debit-limited call of a
   new day checks the limit against a counter reset to 0. *)
C3_DailyLimitConserved ==
    /\ \A id \in DOMAIN accounts :
          /\ debited[id] <= accounts[id].daily_limit
          /\ accounts[id].last_withdraw_date = today_str
                => accounts[id].withdrawn_today = debited[id]
    /\ FirstDebitOfDay =>
          /\ last.res = "DailyLimitExceeded" => last.amt > last.pre[last.acc].daily_limit
          /\ last.res = "ok" => last.amt <= last.pre[last.acc].daily_limit
          /\ today = last.day =>
                accounts[last.acc].withdrawn_today =
                    IF last.res = "ok" THEN last.amt ELSE 0

(* A debit accepted on a new day, the counter left from the day before
   cleared first *)
C3_Witness ==
    /\ FirstDebitOfDay
    /\ last.res = "ok"
    /\ last.pre[last.acc].withdrawn_today > 0
    /\ accounts[last.acc].withdrawn_today = last.amt
    /\ debited[last.acc] = last.amt

(* C4: in an authenticate call on an unlocked account the lock is set by the
   third wrong PIN and by no earlier one, and that ends the call with no
   session; a correct PIN before it sets failed_attempts to 0 and opens the
   session of that account. *)
C4_LockoutDeterminism ==
    /\ pc = "pin" =>
          /\ attempt < MaxAttempts
          /\ accounts[session].failed_attempts = attempt
          /\ ~accounts[session].locked
    /\ (last.op = "pin" /\ last.res = "InvalidPin") =>
          /\ last.amt < MaxAttempts
          /\ pc = "pin" /\ session = last.acc
    /\ (last.op = "pin" /\ last.res = "AccountLocked") =>
          /\ last.amt = MaxAttempts
          /\ ~last.pre[last.acc].locked
          /\ accounts[last.acc].locked
          /\ pc = "main" /\ session = NoAccount
    /\ (last.op = "pin" /\ last.res = "ok") =>
          /\ last.amt <= MaxAttempts
          /\ accounts[last.acc].failed_attempts = 0
          /\ ~accounts[last.acc].locked
          /\ pc = "atm" /\ session = last.acc

(* The third wrong PIN of a call has locked the account *)
C4_Witness ==
    /\ last.op = "pin"
    /\ last.res = "AccountLocked"
    /\ last.amt = MaxAttempts
    /\ accounts[last.acc].locked

(* C5: an authenticate call for a locked account fails at once, taking no PIN
   and changing nothing, so no PIN prompt or ATM session ever belongs to a
   locked account; and while an account stays in the ledger only
   unlock_account turns its locked flag from true to false. *)
C5_LockedUntilUnlocked ==
    /\ [](/\ (last.op = "authenticate" /\ last.acc \in DOMAIN last.pre
                /\ last.pre[last.acc].locked) =>
                 /\ last.res = "AccountLocked"
                 /\ accounts = last.pre
                 /\ file = last.preFile
                 /\ pc = "main" /\ session = NoAccount
          /\ pc \in {"pin", "atm"} => ~accounts[session].locked)
    /\ [][\A id \in IDs :
            (/\ id \in DOMAIN accounts /\ id \in DOMAIN accounts'
             /\ accounts[id].locked /\ ~accounts'[id].locked)
                => (last'.op = "unlock" /\ last'.acc = id /\ last'.res = "ok")]_vars

(* An authenticate call turned away by the lock *)
C5_Witness ==
    /\ last.op = "authenticate"
    /\ last.res = "AccountLocked"
    /\ accounts[last.acc].locked
    /\ accounts[last.acc].failed_attempts = MaxAttempts

(* The entry a transfer adds to the history of account id *)
IsTransferEntry(t, t_type, other, amount, balance_after) ==
    /\ t.type = t_type
    /\ t.note.acc = other
    /\ t.amount = amount
    /\ t.balance_after = balance_after

(* In ledger `new`, account id shows one side of the transfer against `old` *)
SidePresent(old, new, id, t_type, other, amount, delta) ==
    /\ new[id].balance = old[id].balance + delta
    /\ Len(new[id].transactions) = Len(old[id].transactions) + 1
    /\ SubSeq(new[id].transactions, 1, Len(old[id].transactions)) = old[id].transactions
    /\ IsTransferEntry(new[id].transactions[Len(new[id].transactions)],
                       t_type, other, amount, new[id].balance)

SideAbsent(old, new, id) ==
    /\ new[id].balance = old[id].balance
    /\ new[id].transactions = old[id].transactions

TransferFailures ==
    {"NotFound", "SameAccount", "InvalidAmount", "InsufficientFunds",
     "DailyLimitExceeded"}

(* C6: a successful transfer takes exactly the amount from the source and adds
   exactly it to the target, each gaining one transaction (transfer_out noting
   the target, transfer_in noting the source); a failed one leaves the balance
   and the transactions of both accounts as they were. *)
C6_TransferAtomic ==
    last.op = "transfer" =>
        /\ last.res \in TransferFailures \cup {"ok"}
        /\ last.res = "ok" =>
              /\ SidePresent(last.pre, accounts, last.acc, "transfer_out",
                             last.tgt, last.amt, 0 - last.amt)
              /\ SidePresent(last.pre, accounts, last.tgt, "transfer_in",
                             last.acc, last.amt, last.amt)
        /\ last.res # "ok" =>
              \A id \in {last.acc, last.tgt} \cap DOMAIN last.pre :
                  SideAbsent(last.pre, accounts, id)

(* A transfer that went through *)
C6_Witness ==
    /\ last.op = "transfer"
    /\ last.res = "ok"
    /\ accounts[last.acc].balance = last.pre[last.acc].balance - last.amt
    /\ accounts[last.tgt].balance = last.pre[last.tgt].balance + last.amt

(* C7: the file never holds one side of a transfer without the other: after a
   transfer call it shows the debit and the credit, or neither. *)
C7_TransferSavedWhole ==
    (last.op = "transfer" /\ last.tgt \in DOMAIN last.preFile.data
        /\ last.tgt # last.acc) =>
        \/ /\ last.res = "ok"
           /\ SidePresent(last.preFile.data, file.data, last.acc, "transfer_out",
                          last.tgt, last.amt, 0 - last.amt)
           /\ SidePresent(last.preFile.data, file.data, last.tgt, "transfer_in",
                          last.acc, last.amt, last.amt)
        \/ /\ last.res # "ok"
           /\ SideAbsent(last.preFile.data, file.data, last.acc)
           /\ SideAbsent(last.preFile.data, file.data, last.tgt)

(* The file after a transfer, both accounts rewritten *)
C7_Witness ==
    /\ last.op = "transfer"
    /\ last.res = "ok"
    /\ file.data[last.acc].balance = last.preFile.data[last.acc].balance - last.amt
    /\ file.data[last.tgt].balance = last.preFile.data[last.tgt].balance + last.amt
    /\ file.data = accounts

(* C8: a history never holds more than MaxHistory transactions, and it is the
   last MaxHistory of those logged for the account, in the order logged. *)
C8_HistoryBound ==
    \A id \in DOMAIN accounts :
        /\ Len(accounts[id].transactions) <= MaxHistory
        /\ accounts[id].transactions = LastN(logged[id], MaxHistory)

(* More than MaxHistory transactions have been logged for an account *)
C8_Witness ==
    \E id \in DOMAIN accounts :
        /\ Len(logged[id]) > MaxHistory
        /\ Len(accounts[id].transactions) = MaxHistory
        /\ accounts[id].transactions[1] = logged[id][Len(logged[id]) - MaxHistory + 1]

SameMonth(d1, d2) == d1.year = d2.year /\ d1.month = d2.month

(* C9: an AccrueInterest call that comes next after another on the same
   account on the same day changes nothing, whatever the first did (accrued,
   or was turned away for any reason); nor does any call made in the calendar
   month of last_interest_date, which a successful accrual sets to the day it
   is made. *)
C9_InterestIdempotent ==
    /\ [](/\ (last.op = "interest" /\ last.res = "ok") =>
                 accounts[last.acc].last_interest_date = DateOf(last.day)
          /\ (last.op = "interest"
                /\ SameMonth(last.pre[last.acc].last_interest_date, DateOf(last.day))) =>
                 /\ last.res # "ok"
                 /\ accounts = last.pre
                 /\ file = last.preFile)
    /\ [][(/\ last.op = "interest" /\ last.day = today
           /\ pc = "atm" /\ last.acc = session
           /\ ApplyInterest)
              => (accounts' = accounts /\ file' = file /\ logged' = logged)]_vars

(* A second call on the day of a successful accrual, turned away *)
C9_Witness ==
    /\ last.op = "interest"
    /\ last.res = "UpToDate"
    /\ last.pre[last.acc].transactions # <<>>
    /\ LET t == last.pre[last.acc].transactions[Len(last.pre[last.acc].transactions)]
       IN  t.type = "interest" /\ t.time = DateOf(last.day)
    /\ accounts = last.pre

LedgerOps == {"deposit", "withdraw", "transfer", "interest", "create", "delete", "unlock"}

Rejections ==
    {"InvalidAmount", "InsufficientFunds", "DailyLimitExceeded", "SameAccount",
     "NotFound", "DuplicateId", "InvalidPin", "InvalidType"}

(* C10: a ledger or admin operation rejected on a precondition leaves every
   field of every account in memory as it was before the call. *)
C10_RejectedLeavesLedger ==
    (last.op \in LedgerOps /\ last.res \in Rejections) => accounts = last.pre

(* C11: whenever an operation has returned, accepted or rejected, the file
   holds the ledger that is in memory: no change to a field of an account is
   left unsaved between operations. *)
C11_PersistedAfterEveryOperation ==
    pc # "pin" => (file.kind = "ledger" /\ file.data = accounts)

(* C12: in an authenticate call, what a PIN submission did to the account
   (failed_attempts set to 0, or raised by one, or the lock set) is in the file
   before the next PIN is taken: after every attempt the failed_attempts and
   locked of the file are those in memory. *)
C12_EachAttemptPersisted ==
    last.op = "pin" =>
        /\ last.acc \in DOMAIN file.data
        /\ file.data[last.acc].failed_attempts = accounts[last.acc].failed_attempts
        /\ file.data[last.acc].locked = accounts[last.acc].locked

(* The PIN typed is four decimal digits *)
FourDigits(pin) ==
    /\ Len(pin) = 4
    /\ \A i \in 1..Len(pin) :
          pin[i] \in {"0", "1", "2", "3", "4", "5", "6", "7", "8", "9"}

(* The account type meant by what was typed, "" if none *)
TypeMeant(typed) ==
    IF typed \in {"savings", "Savings"} THEN "savings"
    ELSE IF typed \in {"current", "Current"} THEN "current"
    ELSE ""

(* C13: create_account with an id already in the ledger fails with DuplicateId
   and leaves the ledger as it was; with a PIN that is not four digits, or a
   type that is neither savings nor current, it fails and adds no account; on
   success the ledger gains exactly the account of that id, with the opening
   balance given, daily_limit 20000, interest_rate 4% if savings else 0,
   failed_attempts 0, locked false and the one transaction 'deposit' noted
   'Opening deposit'. *)
C13_CreateAccountContract ==
    /\ [](last.op = "create" =>
            /\ last.res = "DuplicateId" =>
                  (last.acc \in DOMAIN last.pre /\ accounts = last.pre)
            /\ last.res \notin {"ok", "DuplicateId"} =>
                  (last.acc \notin DOMAIN accounts /\ accounts = last.pre)
            /\ last.res = "ok" =>
                  /\ last.acc \notin DOMAIN last.pre
                  /\ DOMAIN accounts = DOMAIN last.pre \cup {last.acc}
                  /\ \A id \in DOMAIN last.pre : accounts[id] = last.pre[id]
                  /\ accounts[last.acc].balance = last.amt
                  /\ accounts[last.acc].daily_limit = Rs(20000)
                  /\ accounts[last.acc].interest_rate =
                        (IF accounts[last.acc].type = "savings" THEN 4 ELSE 0)
                  /\ accounts[last.acc].failed_attempts = 0
                  /\ ~accounts[last.acc].locked
                  /\ Len(accounts[last.acc].transactions) = 1
                  /\ accounts[last.acc].transactions[1].type = "deposit"
                  /\ accounts[last.acc].transactions[1].note.text = "Opening deposit"
                  /\ accounts[last.acc].transactions[1].amount = last.amt
                  /\ file.data = accounts)
    /\ [][\A form \in FormsTyped :
            CreateAccount("1003", "Asha Rao", form[1], form[2], form[3]) =>
                /\ "1003" \in DOMAIN accounts => last'.res = "DuplicateId"
                /\ ("1003" \notin DOMAIN accounts
                      /\ (~FourDigits(form[1]) \/ TypeMeant(form[3]) = "")) =>
                      /\ last'.res \in {"InvalidPin", "InvalidType"}
                      /\ accounts' = accounts
                /\ ("1003" \notin DOMAIN accounts /\ FourDigits(form[1])
                      /\ TypeMeant(form[3]) # "" /\ form[2].num) =>
                      /\ last'.res = "ok"
                      /\ accounts'["1003"].pin = form[1]
                      /\ accounts'["1003"].balance = form[2].val
                      /\ accounts'["1003"].type = TypeMeant(form[3])]_vars

(* An account created, the type typed with a capital *)
C13_Witness ==
    /\ last.op = "create"
    /\ last.res = "ok"
    /\ last.acc \in DOMAIN accounts
    /\ accounts[last.acc].type = "current"
    /\ accounts[last.acc].balance = Rs(25000)
    /\ Len(accounts[last.acc].transactions) = 1

(* C14: load_accounts never fails outward: whatever the file is (absent,
   unreadable, not JSON, JSON but not a mapping of accounts) the program comes
   to its main menu with a ledger; and when the file is absent, unreadable or
   not JSON that ledger is the default seed of 1001 and 1002, and the file
   holds it. *)
C14_LoadNeverFails ==
    last.op = "load" =>
        /\ last.res = "ok"
        /\ pc # "crashed"
        /\ last.preFile.kind \in {"absent", "unreadable", "corrupt"} =>
              /\ accounts = CreateDefaultAccounts(DateOf(last.day))
              /\ file = SaveAccounts(CreateDefaultAccounts(DateOf(last.day)))


TransactionKinds == {"deposit", "withdraw", "transfer_out", "transfer_in", "interest"}

(* C15: every transaction of every history has a kind among deposit, withdraw,
   transfer_out, transfer_in and interest and an amount > 0, the opening
   deposit logged by create_account included. *)
C15_TransactionsPositive ==
    \A id \in DOMAIN accounts :
        \A i \in 1..Len(accounts[id].transactions) :
            /\ accounts[id].transactions[i].type \in TransactionKinds
            /\ accounts[id].transactions[i].amount > 0

(* C16: failed_attempts is within 0..3 for every account in every state; and
   between operations (no authenticate call waiting for a PIN) an account is
   locked exactly when its failed_attempts is 3 and an unlocked account has
   failed_attempts 0, in memory and in the file, so an authenticate call on an
   unlocked account starts with three attempts to spend. *)
C16_FailedAttemptsAndLock ==
    /\ \A id \in DOMAIN accounts : accounts[id].failed_attempts \in 0..3
    /\ \A id \in DOMAIN file.data : file.data[id].failed_attempts \in 0..3
    /\ pc # "pin" =>
          /\ \A id \in DOMAIN accounts :
                /\ accounts[id].locked <=> accounts[id].failed_attempts = 3
                /\ ~accounts[id].locked => accounts[id].failed_attempts = 0
          /\ \A id \in DOMAIN file.data :
                /\ file.data[id].locked <=> file.data[id].failed_attempts = 3
                /\ ~file.data[id].locked => file.data[id].failed_attempts = 0
    /\ (last.op = "authenticate" /\ last.res = "prompt" /\ pc = "pin" /\ attempt = 0) =>
          accounts[session].failed_attempts = 0

(* An account locked by three wrong PINs has been unlocked by the admin *)
C16_Witness ==
    /\ last.op = "unlock"
    /\ last.res = "ok"
    /\ last.pre[last.acc].locked
    /\ last.pre[last.acc].failed_attempts = 3
    /\ ~accounts[last.acc].locked
    /\ accounts[last.acc].failed_attempts = 0

(* What account has used of its daily limit on the day, by its own record *)
UsedOn(account, date) ==
    IF account.last_withdraw_date = date THEN account.withdrawn_today ELSE 0

(* C17: a withdrawal succeeds exactly when the amount is a number > 0, at most
   the balance, and with what was withdrawn earlier that day at most the daily
   limit (reaching the limit exactly is accepted); when it exceeds the balance
   and the limit both, the outcome is InsufficientFunds; on success the
   balance falls by the amount, withdrawn_today rises by it and one 'withdraw'
   transaction is logged; otherwise balance and history stay.  So with balance
   15000 and limit 20000, after withdrawing 5000 (balance 10000,
   withdrawn_today 5000) a withdrawal of 16000 the same day is rejected and
   the balance stays 10000. *)
C17_WithdrawContract ==
    /\ [](last.op = "withdraw" =>
            /\ last.res \in {"ok", "InvalidAmount", "InsufficientFunds",
                              "DailyLimitExceeded"}
            /\ last.res = "ok" =>
                  /\ last.amt > 0
                  /\ last.amt <= last.pre[last.acc].balance
                  /\ UsedOn(last.pre[last.acc], DateOf(last.day)) + last.amt
                        <= last.pre[last.acc].daily_limit
                  /\ file.data = accounts)
    /\ [][\A inp \in WithdrawTyped :
            (pc = "atm" /\ Withdraw(inp)) =>
                LET account == accounts[session]
                    after == accounts'[session]
                    used == UsedOn(account, DateOf(today))
                    positive == inp.num /\ inp.val > 0
                    covered == inp.val <= account.balance
                    allowed == used + inp.val <= account.daily_limit
                IN  /\ last'.res = "ok" <=> (positive /\ covered /\ allowed)
                    /\ (positive /\ ~covered /\ ~allowed) =>
                          last'.res = "InsufficientFunds"
                    /\ (positive /\ covered /\ allowed) =>
                          /\ after.balance = account.balance - inp.val
                          /\ after.withdrawn_today = used + inp.val
                          /\ after.last_withdraw_date = DateOf(today)
                          /\ Len(after.transactions) = Len(account.transactions) + 1
                          /\ SubSeq(after.transactions, 1, Len(account.transactions))
                                = account.transactions
                          /\ after.transactions[Len(after.transactions)].type = "withdraw"
                          /\ after.transactions[Len(after.transactions)].amount = inp.val
                          /\ after.transactions[Len(after.transactions)].balance_after
                                = after.balance
                    /\ ~(positive /\ covered /\ allowed) =>
                          /\ after.balance = account.balance
                          /\ after.transactions = account.transactions
                          /\ file' = file]_vars

(* The worked example: 16000 asked after 5000 withdrawn the same day *)
C17_Witness ==
    /\ last.op = "withdraw"
    /\ last.amt = Rs(16000)
    /\ last.res # "ok"
    /\ last.pre[last.acc].balance = Rs(10000)
    /\ last.pre[last.acc].withdrawn_today = Rs(5000)
    /\ last.pre[last.acc].last_withdraw_date = DateOf(last.day)
    /\ last.pre[last.acc].daily_limit = Rs(20000)
    /\ accounts[last.acc].balance = Rs(10000)

(* C18: an interest call commits exactly when the account is savings, its
   rate is > 0, months = (today.year - last.year) * 12 + (today.month -
   last.month) is >= 1 and balance * (rate / 12) * months is > 0; it then adds
   that interest (to the paisa) to the balance, sets last_interest_date to
   today and logs one 'interest' transaction; in every other case it changes
   nothing, last_interest_date included.  At 4% a balance of 10000 earns 100
   in 3 months and becomes 10100. *)
C18_InterestContract ==
    /\ [](/\ last.op = "interest" =>
               last.res \in {"ok", "NotSavings", "NoRate", "UpToDate", "NothingToAccrue"}
          /\ (last.op = "interest" /\ last.res = "ok"
                /\ last.pre[last.acc].balance = Rs(10000)
                /\ last.pre[last.acc].interest_rate = 4
                /\ accounts[last.acc].transactions[
                       Len(accounts[last.acc].transactions)].note.months = 3) =>
                 /\ last.amt = Rs(100)
                 /\ accounts[last.acc].balance = Rs(10100))
    /\ [][(pc = "atm" /\ ApplyInterest) =>
            LET account == accounts[session]
                after == accounts'[session]
                date == DateOf(today)
                months == (date.year - account.last_interest_date.year) * 12
                            + (date.month - account.last_interest_date.month)
                product == account.balance * account.interest_rate * months
                commits == /\ account.type = "savings"
                           /\ account.interest_rate > 0
                           /\ months >= 1
                           /\ product > 0
                interest == after.balance - account.balance
            IN  /\ last'.res = "ok" <=> commits
                /\ commits =>
                      /\ interest * 1200 <= product
                      /\ product < (interest + 1) * 1200
                      /\ after.last_interest_date = date
                      /\ Len(after.transactions) = Len(account.transactions) + 1
                      /\ SubSeq(after.transactions, 1, Len(account.transactions))
                            = account.transactions
                      /\ after.transactions[Len(after.transactions)].type = "interest"
                      /\ after.transactions[Len(after.transactions)].amount = interest
                      /\ after.transactions[Len(after.transactions)].balance_after
                            = after.balance
                      /\ after.transactions[Len(after.transactions)].note.months = months
                      /\ file'.data = accounts'
                /\ ~commits => (accounts' = accounts /\ file' = file)]_vars

(* The worked example: three months of interest on 10000 *)
C18_Witness ==
    /\ last.op = "interest"
    /\ last.res = "ok"
    /\ last.pre[last.acc].balance = Rs(10000)
    /\ DateOf(last.day).month
          = ((last.pre[last.acc].last_interest_date.month + 2) % MonthsPerYear) + 1
    /\ last.amt = Rs(100)
    /\ accounts[last.acc].balance = Rs(10100)
    /\ accounts[last.acc].last_interest_date = DateOf(last.day)

(* C19: for every account with a history, the balance_after of its newest
   transaction is the balance of the account: no operation changes a balance
   without logging a transaction that carries the new balance. *)
C19_NewestEntryIsBalance ==
    /\ \A id \in DOMAIN accounts :
          accounts[id].transactions # <<>> =>
              accounts[id].transactions[Len(accounts[id].transactions)].balance_after
                  = accounts[id].balance
    /\ \A id \in DOMAIN accounts :
          (id \in DOMAIN last.pre
             /\ accounts[id].balance # last.pre[id].balance) =>
              /\ accounts[id].transactions # <<>>
              /\ accounts[id].transactions # last.pre[id].transactions

(* An account with several transactions, its balance that of the newest *)
C19_Witness ==
    \E id \in DOMAIN accounts :
        /\ Len(accounts[id].transactions) >= 2
        /\ accounts[id].transactions[Len(accounts[id].transactions)].balance_after
              = accounts[id].balance
        /\ accounts[id].transactions[1].balance_after # accounts[id].balance
        /\ accounts[id].transactions[Len(accounts[id].transactions)].type = "transfer_out"

Balances(accs) == SumOver([id \in DOMAIN accs |-> accs[id].balance], DOMAIN accs)

(* C20: a successful transfer from A to B leaves the sum of all balances as it
   was, changes no account but A and B, and changes of B only the balance and
   the history: B's withdrawn_today, last_withdraw_date, daily_limit,
   failed_attempts and locked stay; and whether a transfer succeeds does not
   depend on what B has used of its daily limit or on B being locked. *)
C20_TransferFrame ==
    /\ []((last.op = "transfer" /\ last.res = "ok") =>
            /\ DOMAIN accounts = DOMAIN last.pre
            /\ Balances(accounts) = Balances(last.pre)
            /\ \A id \in DOMAIN accounts \ {last.acc, last.tgt} :
                  accounts[id] = last.pre[id]
            /\ [accounts[last.tgt] EXCEPT
                    !.balance = last.pre[last.tgt].balance,
                    !.transactions = last.pre[last.tgt].transactions]
                 = last.pre[last.tgt]
            /\ accounts[last.tgt].withdrawn_today = last.pre[last.tgt].withdrawn_today
            /\ accounts[last.tgt].last_withdraw_date
                  = last.pre[last.tgt].last_withdraw_date
            /\ accounts[last.tgt].daily_limit = last.pre[last.tgt].daily_limit
            /\ accounts[last.tgt].failed_attempts = last.pre[last.tgt].failed_attempts
            /\ accounts[last.tgt].locked = last.pre[last.tgt].locked)
    /\ [][\A target_acc_no \in IDs, inp \in Typed \cup TransferTyped :
            (pc = "atm" /\ Transfer(target_acc_no, inp)) =>
                (last'.res = "ok" <=>
                    /\ target_acc_no \in DOMAIN accounts
                    /\ target_acc_no # session
                    /\ inp.num /\ inp.val > 0
                    /\ inp.val <= accounts[session].balance
                    /\ UsedOn(accounts[session], DateOf(today)) + inp.val
                          <= accounts[session].daily_limit)]_vars

(* A transfer into an account that is locked and has used its limit today *)
C20_Witness ==
    /\ last.op = "transfer"
    /\ last.res = "ok"
    /\ last.pre[last.tgt].locked
    /\ last.pre[last.tgt].withdrawn_today > 0
    /\ accounts[last.tgt].locked
    /\ accounts[last.tgt].withdrawn_today = last.pre[last.tgt].withdrawn_today
    /\ accounts[last.tgt].balance = last.pre[last.tgt].balance + last.amt

----------------------------------------------------------------------------
(* Runs that fill a history: sessions in which only deposits are made *)

LogAmount == Number(Rs(5000))

LogNext ==
    \/ \E acc_no \in {"1001", "1002"} : Authenticate(acc_no)
    \/ pc = "pin" /\ SubmitPin(accounts[session].pin)
    \/ pc = "atm" /\ Len(logged[session]) < MaxHistory + LogExtra /\ Deposit(LogAmount)
    \/ Logout

LogSpec == Init /\ [][LogNext]_vars

----------------------------------------------------------------------------
(* Runs of the program over every state of the storage: it is started, used
   for deposits, left, and the file is damaged while it is not running *)

LoadInit ==
    /\ accounts = NoLedger
    /\ file \in {[kind |-> kind, data |-> NoLedger] : kind \in StorageKinds \ {"ledger"}}
    /\ today = StartDay
    /\ pc = "off"
    /\ session = NoAccount
    /\ attempt = 0
    /\ last = [op |-> "none", acc |-> NoAccount, tgt |-> NoAccount, amt |-> 0,
               res |-> "ok", pre |-> NoLedger,
               preFile |-> [kind |-> "absent", data |-> NoLedger], day |-> StartDay]
    /\ logged = [id \in IDs |-> <<>>]
    /\ debited = [id \in IDs |-> 0]

LoadNext ==
    \/ Start
    \/ Exit
    \/ \E kind \in StorageKinds : Damage(kind)
    \/ pc = "off" /\ Tick /\ WithinBounds
    \/ \E acc_no \in {"1001", "1002"} : Authenticate(acc_no)
    \/ pc = "pin" /\ SubmitPin(accounts[session].pin)
    \/ Deposit(LogAmount) /\ WithinBounds
    \/ Logout

LoadSpec == LoadInit /\ [][LoadNext]_vars

----------------------------------------------------------------------------
(* Runs over months: withdrawals and interest calls with months between them *)

WithinInterestBounds ==
    /\ today' <= StartDay + InterestMonths * DaysPerMonth
    /\ SumOver([id \in IDs |-> Len(logged'[id])], IDs) <= MaxEvents

InterestNext ==
    \/ pc = "main" /\ Wait /\ WithinInterestBounds
    \/ \E acc_no \in IDs : Authenticate(acc_no)
    \/ pc = "pin" /\ SubmitPin(accounts[session].pin)
    \/ Withdraw(LogAmount) /\ WithinInterestBounds
    \/ ApplyInterest /\ WithinInterestBounds
    \/ Logout
    \/ AdminLogin(AdminUsername, AdminPassword)
    \/ CreateAccount("1003", "Asha Rao", Pin4321, Number(0 - Rs(5000)), "savings")
          /\ WithinInterestBounds
    \/ AdminBack

InterestSpec == Init /\ [][InterestNext]_vars

----------------------------------------------------------------------------
(* Runs of transfers between accounts that may be locked or have withdrawn;
   one midnight may pass *)

WithinTransferBounds ==
    SumOver([id \in IDs |-> Len(logged'[id])], IDs) <= MaxEvents

TransferNext ==
    \/ pc = "main" /\ today = StartDay /\ Tick
    \/ \E acc_no \in IDs : Authenticate(acc_no)
    \/ \E pin \in PinsTyped : SubmitPin(pin)
    \/ Logout
    \/ Withdraw(LogAmount) /\ WithinTransferBounds
    \/ \E target_acc_no \in IDs, inp \in TransferTyped :
          Transfer(target_acc_no, inp) /\ WithinTransferBounds
    \/ AdminLogin(AdminUsername, AdminPassword)
    \/ CreateAccount("1003", "Asha Rao", Pin1234, Number(Rs(25000)), "Current")
          /\ WithinTransferBounds
    \/ AdminBack

TransferSpec == Init /\ [][TransferNext]_vars

====
